---- MODULE Spec2Model ----
(***************************************************************************)
(* Model of the live voice-assistant session hook useGeminiLive            *)
(* (src/types.ts:365-660): the session state machine, the teardown, the    *)
(* transport callbacks, the playback scheduler and the tool-call           *)
(* dispatcher.  Every await of the source is a suspension point: the code  *)
(* before it and the code after it are separate atomic steps, and any      *)
(* other handler may run in between (single-threaded event loop).          *)
(***************************************************************************)
EXTENDS Integers, Sequences, FiniteSets, TLC

\* ---------------------------------------------------------------- bounds
MaxCalls == 2        \* accepted startSession() calls in the lifecycle runs
MaxClock == 3        \* largest device clock value (AudioContext.currentTime)
MaxDur == 2          \* largest duration of one decoded audio chunk
MaxChunks == 3       \* audio chunks received in one run
MaxToolMsgs == 2     \* toolCall messages received in one run
MaxCallsPerMsg == 2  \* function calls in one toolCall message
MaxPlaybackCalls == 1 \* accepted startSession() calls in the playback runs
MaxToolSessions == 1 \* accepted startSession() calls in the tool-call and transcript runs
MaxDeltas == 3       \* messages received in one transcript run
MaxFrame == 12       \* longest captured frame, besides the 960-sample one
MaxRows == 6         \* rows of the journal sheet below the header
MaxOrderMsgs == 2    \* messages received in one ordering run
MaxLifecycleFrames == 1 \* frames captured in one lifecycle run
MaxFrames == 3       \* frames captured in one capture run
MaxAppendMsgs == 3   \* messages received in one run of two sessions

Calls == 1..MaxCalls
Chunks == 1..MaxChunks

\* ------------------------------------------------------- error messages
NoError == "null"
MicDeniedMsg == "Microphone access denied. Please close any screen overlays (like chat heads) and try again."
UnexpectedMsg == "An unexpected error occurred."
ConnFailedMsg == "Connection to AI assistant failed."
KeyMsg == "API_KEY is not set."

\* getAccessToken() of a user who is not signed in
NoToken == "null"

\* the sheet columns updateJournalEntry accepts as its field
COLUMN_MAP ==
    [id |-> "A", timestamp |-> "B", entry |-> "C", tags |-> "D", type |-> "E",
     taskStatus |-> "F", dueDate |-> "G", priority |-> "H", aiSummary |-> "I", aiInsight |-> "J"]

\* the values a rejected await or a throw can carry
KeyError == [name |-> "Error", isError |-> TRUE, message |-> KeyMsg]
MicErrors ==
    { [name |-> "NotAllowedError", isError |-> TRUE, message |-> "Permission denied"],
      [name |-> "PermissionDeniedError", isError |-> TRUE, message |-> "denied"],
      [name |-> "NotFoundError", isError |-> TRUE, message |-> "Requested device not found"] }
ResumeError == [name |-> "InvalidStateError", isError |-> TRUE, message |-> "context closed"]
ConnectErrors ==
    { [name |-> "Error", isError |-> TRUE, message |-> "connect failed"],
      [name |-> "none", isError |-> FALSE, message |-> "none"] }

VARIABLES
    \* React state of the hook
    sessionState, errorMessage, micVolume, transcript,
    \* refs of the hook
    sessionRef, mediaStreamRef, audioContextRef, scriptProcessorRef,
    nextAudioStartTime, audioSources, isBusy,
    \* environment: build-time credential, the resources created by each
    \* accepted startSession() call (call k creates context k, stream k,
    \* transport k and script processor k), where each call is suspended, and
    \* the frames of script processor k: how many it captured, those whose
    \* then-callback waits for the connect promise, and the sendRealtimeInput
    \* calls made, in order (open: on an open transport; queued: after a wait)
    apiKeySet, accessToken, nextCall, pc, ctxState, streamState, transport, procState, procWire,
    frames,
    \* playback: the clock of each audio context, the buffer sources
    clock, srcState, srcCount,
    \* onmessage handlers suspended at an await, messages with an audio chunk,
    \* a transcription or function calls and function calls received so far,
    \* sendToolResponse calls made so far
    handlers, msgCount, callCount, responses,
    \* the function calls whose storage request was sent, the ids of those that threw
    fetched, failed,
    \* history
    lastCmd, lastAct, lastErr, rel, sched, chain, received,
    \* one call of downsampleTo16k: the frame, the device rate, the frame returned
    inputData, sampleRate, resampled,
    \* one findEntries tool call: the rows of the sheet, the arguments, the entries returned
    sheet, findArgs, found,
    \* one fetchWithRetry call: the retries and backoff parameters of the
    \* current invocation, the outcomes of the fetch attempts made, where the
    \* call is, what it returned or threw
    retries, backoff, fetchLog, fetchPc, fetchResult

uiVars == <<sessionState, errorMessage, micVolume, transcript>>
refVars == <<sessionRef, mediaStreamRef, audioContextRef, scriptProcessorRef, isBusy>>
envVars == <<apiKeySet, accessToken, nextCall, pc, ctxState, streamState, transport, procState,
             procWire, frames>>
playVars == <<nextAudioStartTime, audioSources, clock, srcState, srcCount>>
toolVars == <<handlers, msgCount, callCount, responses, fetched, failed>>
histVars == <<lastCmd, lastAct, lastErr, rel, sched, chain, received>>
retryVars == <<retries, backoff, fetchLog, fetchPc, fetchResult>>
fnVars == <<inputData, sampleRate, resampled, sheet, findArgs, found, retryVars>>
vars == <<uiVars, refVars, envVars, playVars, toolVars, histVars, fnVars>>

\* history of the playback: the last scheduling (msg is the arrival number
\* of the message of the chunk, played the contexts that have played a chunk,
\* first whether the chunk is the first one of its context), and the chunk
\* the next one follows when nothing flushed the playback in between
NoChain == [ctx |-> 0, end |-> 0]
NoSched == [start |-> 0, clock |-> 0, dur |-> 0, cursor |-> 0, ctx |-> 0, flushed |-> FALSE,
            prevEnd |-> -1, msg |-> 0, first |-> FALSE, played |-> {}]

Bump(f, k) == [f EXCEPT ![k] = IF @ < 2 THEN @ + 1 ELSE @]

\* ------------------------------------------------------------ stopSession
\* 1. close the Gemini session
CloseSession(tr) ==
    IF sessionRef # 0
    THEN [tr EXCEPT ![sessionRef] = IF @ = "open" THEN "closing" ELSE @]
    ELSE tr
SessionRefAfterStop == 0

\* 2. stop the media stream
StopTracks(ss) ==
    IF mediaStreamRef # 0 THEN [ss EXCEPT ![mediaStreamRef] = "stopped"] ELSE ss
MediaStreamRefAfterStopMutant == mediaStreamRef
MediaStreamRefAfterStop == 0

\* 3. disconnect the processing node
DisconnectProcessor(ps) ==
    IF scriptProcessorRef # 0 THEN [ps EXCEPT ![scriptProcessorRef] = "disconnected"] ELSE ps

\* 4. stop playing audio
StopSources(src) == [s \in Chunks |-> IF s \in audioSources THEN "stopped" ELSE src[s]]

\* 5. close the audio context
CloseContext(cs) ==
    IF audioContextRef # 0 /\ cs[audioContextRef] # "closed"
    THEN [cs EXCEPT ![audioContextRef] = "closed"]
    ELSE cs

\* the release calls one stopSession() makes, by resource
Releases(r) ==
    [ close |-> IF sessionRef # 0 THEN Bump(r.close, sessionRef) ELSE r.close,
      tracks |-> IF mediaStreamRef # 0 THEN Bump(r.tracks, mediaStreamRef) ELSE r.tracks,
      disc |-> IF scriptProcessorRef # 0 THEN Bump(r.disc, scriptProcessorRef) ELSE r.disc,
      ctx |-> IF audioContextRef # 0 /\ ctxState[audioContextRef] # "closed"
              THEN Bump(r.ctx, audioContextRef) ELSE r.ctx ]

\* the whole body of stopSession(), run on the transports tr and contexts cs
\* as the calling handler left them
Teardown(tr, cs) ==
    /\ transport' = CloseSession(tr)
    /\ sessionRef' = SessionRefAfterStop
    /\ streamState' = StopTracks(streamState)
    /\ mediaStreamRef' = MediaStreamRefAfterStop
    /\ procState' = DisconnectProcessor(procState)
    /\ scriptProcessorRef' = 0
    /\ srcState' = StopSources(srcState)
    /\ audioSources' = {}
    /\ ctxState' = CloseContext(cs)
    /\ audioContextRef' = 0
    /\ rel' = Releases(rel)
    /\ sessionState' = "IDLE"
    /\ micVolume' = 0
    /\ isBusy' = FALSE

StopSession ==
    /\ Teardown(transport, ctxState)
    /\ lastCmd' = "stop"
    /\ lastAct' = IF lastAct \in {"stop", "stopAgain"} THEN "stopAgain" ELSE "stop"
    /\ chain' = NoChain
    /\ UNCHANGED <<errorMessage, transcript, apiKeySet, accessToken, fnVars, nextCall, pc, procWire, frames,
                   nextAudioStartTime, clock, srcCount, toolVars, sched, received, lastErr>>

\* ----------------------------------------------------------- startSession
\* the message the catch block of startSession() shows for an error
ErrorMsgMutant(err) == IF err.isError THEN err.message ELSE UnexpectedMsg
ErrorMsg(err) ==
    IF err.name = "NotAllowedError" \/ err.name = "PermissionDeniedError"
    THEN MicDeniedMsg
    ELSE IF err.isError THEN err.message ELSE UnexpectedMsg

\* the re-entrancy guard
GuardDrops == isBusy \/ sessionRef # 0

\* the credential test that opens the try block
KeyMissingMutant == FALSE
KeyMissing == ~apiKeySet

\* catch block: message, ERROR, then stopSession()
StartFailed(k, err, tr, cs) ==
    /\ errorMessage' = ErrorMsg(err)
    /\ Teardown(tr, cs)
    /\ pc' = [pc EXCEPT ![k] = "done"]
    /\ lastAct' = "startFailed"
    /\ lastErr' = err.name
    /\ chain' = NoChain

StartSession(limit) ==
    /\ lastCmd' = "start"
    /\ IF GuardDrops
       THEN /\ lastAct' = "startDropped"
            /\ UNCHANGED <<uiVars, refVars, envVars, playVars, toolVars, rel, sched, chain, received, lastErr, fnVars>>
       ELSE /\ nextCall <= limit
            /\ nextCall' = nextCall + 1
            /\ transcript' = <<>>
            /\ IF KeyMissing
               THEN /\ StartFailed(nextCall, KeyError, transport, ctxState)
                    /\ UNCHANGED <<apiKeySet, accessToken, fnVars, procWire, frames, nextAudioStartTime, clock,
                                   srcCount, toolVars, sched, received>>
               ELSE \E st \in {"suspended", "running"} :
                    /\ isBusy' = TRUE
                    /\ errorMessage' = NoError
                    /\ micVolume' = 0
                    /\ ctxState' = [ctxState EXCEPT ![nextCall] = st]
                    /\ clock' = [clock EXCEPT ![nextCall] = 0]
                    /\ audioContextRef' = nextCall
                    /\ pc' = [pc EXCEPT ![nextCall] = IF st = "suspended" THEN "resume" ELSE "mic"]
                    /\ lastAct' = "other"
                    /\ UNCHANGED <<sessionState, sessionRef, mediaStreamRef, scriptProcessorRef,
                                   apiKeySet, accessToken, fnVars, streamState, transport, procState, procWire, frames,
                                   nextAudioStartTime, audioSources, srcState, srcCount,
                                   toolVars, rel, sched, chain, received, lastErr>>

\* ctx.resume() settles: it rejects on a context closed in the meantime
ResumeSettle(k) ==
    /\ pc[k] = "resume"
    /\ UNCHANGED <<lastCmd, transcript, apiKeySet, accessToken, fnVars, nextCall, procWire, frames,
                   nextAudioStartTime, clock, srcCount, toolVars, sched, received>>
    /\ IF ctxState[k] = "closed"
       THEN StartFailed(k, ResumeError, transport, ctxState)
       ELSE /\ ctxState' = [ctxState EXCEPT ![k] = "running"]
            /\ pc' = [pc EXCEPT ![k] = "mic"]
            /\ lastAct' = "other"
            /\ UNCHANGED <<sessionState, errorMessage, micVolume, refVars, streamState,
                           transport, procState, audioSources, srcState, rel, chain, lastErr>>

\* getUserMedia() settles
MicSettle(k) ==
    /\ pc[k] = "mic"
    /\ UNCHANGED <<lastCmd, transcript, apiKeySet, accessToken, fnVars, nextCall, procWire, frames,
                   nextAudioStartTime, clock, srcCount, toolVars, sched, received>>
    /\ \/ /\ streamState' = [streamState EXCEPT ![k] = "live"]
          /\ mediaStreamRef' = k
          /\ sessionState' = "CONNECTING"
          /\ transport' = [transport EXCEPT ![k] = "connecting"]
          /\ pc' = [pc EXCEPT ![k] = "connect"]
          /\ lastAct' = "other"
          /\ UNCHANGED <<errorMessage, micVolume, sessionRef, audioContextRef, scriptProcessorRef,
                         isBusy, ctxState, procState, audioSources, srcState, rel, chain, lastErr>>
       \/ \E err \in MicErrors : StartFailed(k, err, transport, ctxState)

\* the test that opens onopen: without a stream or a context it returns
PipelineMissingMutant == FALSE
PipelineMissing == mediaStreamRef = 0 \/ audioContextRef = 0

\* onopen wires the capture pipeline to the microphone
Wire(k) ==
    IF PipelineMissing
    THEN UNCHANGED <<scriptProcessorRef, procState, procWire, sessionState, isBusy>>
    ELSE /\ scriptProcessorRef' = k
         /\ procState' = [procState EXCEPT ![k] = "connected"]
         /\ procWire' = [procWire EXCEPT ![k] = [ctx |-> audioContextRef, stream |-> mediaStreamRef]]
         /\ sessionState' = "LISTENING"
         /\ isBusy' = FALSE

\* the transport opens: onopen runs, then the connect promise resolves and
\* startSession() resumes to store the session
TransportOpen(k) ==
    /\ transport[k] = "connecting"
    /\ pc[k] = "connect"
    /\ transport' = [transport EXCEPT ![k] = "open"]
    /\ Wire(k)
    /\ sessionRef' = k
    /\ pc' = [pc EXCEPT ![k] = "done"]
    /\ lastAct' = "other"
    /\ UNCHANGED <<errorMessage, micVolume, transcript, mediaStreamRef, audioContextRef,
                   apiKeySet, accessToken, fnVars, nextCall, ctxState, streamState, frames, playVars, toolVars,
                   lastCmd, rel, sched, chain, received, lastErr>>

\* the same in two steps, for the runs in which frames are captured in
\* between: onopen alone; the connect promise is still pending
OnOpen(k) ==
    /\ transport[k] = "connecting"
    /\ pc[k] = "connect"
    /\ transport' = [transport EXCEPT ![k] = "open"]
    /\ Wire(k)
    /\ pc' = [pc EXCEPT ![k] = "opened"]
    /\ lastAct' = "other"
    /\ UNCHANGED <<errorMessage, micVolume, transcript, sessionRef, mediaStreamRef, audioContextRef,
                   apiKeySet, accessToken, fnVars, nextCall, ctxState, streamState, frames, playVars, toolVars,
                   lastCmd, rel, sched, chain, received, lastErr>>

\* the then-callbacks of the frames nos run in the order they were
\* registered: one sendRealtimeInput call each
DeliverMutant(sent, nos, open, queued) ==
    sent \o [i \in 1..Len(nos) |-> [no |-> nos[Len(nos) + 1 - i], open |-> open, queued |-> queued]]
Deliver(sent, nos, open, queued) ==
    sent \o [i \in 1..Len(nos) |-> [no |-> nos[i], open |-> open, queued |-> queued]]

\* the connect promise resolves: the waiting then-callbacks run, and
\* startSession() resumes to store the session
ConnectResolve(k) ==
    /\ pc[k] = "opened"
    /\ frames' = [frames EXCEPT ![k] =
                    [@ EXCEPT !.sent = Deliver(@, frames[k].waiting, transport[k] = "open", TRUE),
                              !.waiting = <<>>]]
    /\ sessionRef' = k
    /\ pc' = [pc EXCEPT ![k] = "done"]
    /\ lastAct' = "other"
    /\ UNCHANGED <<uiVars, mediaStreamRef, audioContextRef, scriptProcessorRef, isBusy,
                   apiKeySet, accessToken, fnVars, nextCall, ctxState, streamState, transport,
                   procState, procWire, playVars, toolVars,
                   lastCmd, rel, sched, chain, received, lastErr>>

\* the connect promise rejects
ConnectReject(k) ==
    /\ pc[k] = "connect"
    /\ transport[k] \in {"connecting", "closing", "closed"}
    /\ \E err \in ConnectErrors :
         StartFailed(k, err, [transport EXCEPT ![k] = IF @ = "connecting" THEN "closed" ELSE @], ctxState)
    /\ UNCHANGED <<lastCmd, transcript, apiKeySet, accessToken, fnVars, nextCall, procWire, frames,
                   nextAudioStartTime, clock, srcCount, toolVars, sched, received>>

\* onclose: the server ends the channel, or the close event of a channel
\* that was closed locally or that failed arrives
OnClose(k) ==
    /\ transport[k] \in {"connecting", "open", "closing"}
    /\ Teardown([transport EXCEPT ![k] = "closed"], ctxState)
    /\ lastAct' = "other"
    /\ chain' = NoChain
    /\ UNCHANGED <<lastCmd, errorMessage, transcript, apiKeySet, accessToken, fnVars, nextCall, pc, procWire, frames,
                   nextAudioStartTime, clock, srcCount, toolVars, sched, received, lastErr>>

\* onerror: fatal transport fault; the close event follows
OnError(k) ==
    /\ transport[k] \in {"connecting", "open"}
    /\ errorMessage' = ConnFailedMsg
    /\ Teardown([transport EXCEPT ![k] = "closing"], ctxState)
    /\ lastAct' = "onerror"
    /\ chain' = NoChain
    /\ UNCHANGED <<lastCmd, transcript, apiKeySet, accessToken, fnVars, nextCall, pc, procWire, frames,
                   nextAudioStartTime, clock, srcCount, toolVars, sched, received, lastErr>>

\* onaudioprocess of script processor p: volume for the visualizer, and the
\* frame is handed to the session of the startSession() call that wired p,
\* at once when its connect promise has resolved, when it resolves otherwise
Capture(f, p) ==
    IF pc[p] = "opened"
    THEN [f EXCEPT !.n = @ + 1, !.waiting = Append(@, f.n + 1)]
    ELSE [f EXCEPT !.n = @ + 1, !.sent = Deliver(@, <<f.n + 1>>, transport[p] = "open", FALSE)]

RECURSIVE Captured(_)
Captured(k) == IF k = 0 THEN 0 ELSE frames[k].n + Captured(k - 1)

AudioProcess(p, limit) ==
    /\ procState[p] = "connected"
    /\ ctxState[procWire[p].ctx] = "running"
    /\ Captured(MaxCalls) < limit
    /\ \E v \in {0, 1} : micVolume' = v
    /\ frames' = [frames EXCEPT ![p] = Capture(@, p)]
    /\ lastAct' = "other"
    /\ UNCHANGED <<sessionState, errorMessage, transcript, refVars, apiKeySet, accessToken, fnVars, nextCall, pc,
                   ctxState, streamState, transport, procState, procWire, playVars,
                   toolVars, lastCmd, rel, sched, chain, received, lastErr>>

\* -------------------------------------------------------------- onmessage
Max(a, b) == IF a >= b THEN a ELSE b

\* addTranscript, and updateLastTranscript with the updater of the
\* transcription deltas (text appended to the text of the last entry)
addTranscript(t, entry) == Append(t, entry)
updateLastTranscriptMutant(t, text) ==
    IF Len(t) > 0 THEN [t EXCEPT ![Len(t)] = [@ EXCEPT !.text = text]] ELSE t
updateLastTranscript(t, text) ==
    IF Len(t) > 0 THEN [t EXCEPT ![Len(t)] = [@ EXCEPT !.text = @ \o text]] ELSE t

\* one transcription delta ("" when the message has none)
TranscribeMutant(t, src, text) ==
    IF text = "" THEN t ELSE addTranscript(t, [source |-> src, text |-> text])
Transcribe(t, src, text) ==
    IF text = "" THEN t
    ELSE IF Len(t) > 0 /\ t[Len(t)].source = src
         THEN updateLastTranscript(t, text)
         ELSE addTranscript(t, [source |-> src, text |-> text])
AfterTranscription(t, m) == Transcribe(Transcribe(t, "user", m.inT), "ai", m.outT)

\* the system line a dispatched function call adds to the transcript
SystemText(fc) ==
    IF fc.name = "findEntries"
    THEN "Searching journal for " \o fc.args.query \o "..."
    ELSE "Updating " \o fc.args.field \o " to " \o fc.args.value \o " on row " \o fc.args.row \o "..."

KnownTools == {"findEntries", "updateJournalEntry"}

\* addTranscript of the system line, made before the storage call
SystemEntryMutant(t, fc) ==
    IF fc.name = "findEntries" THEN t
    ELSE addTranscript(t, [source |-> "system", text |-> SystemText(fc)])
SystemEntry(t, fc) == addTranscript(t, [source |-> "system", text |-> SystemText(fc)])

\* the storage call throws before it sends a request: no access token, or
\* (updateJournalEntry) a field that is no column of the sheet
GetJournalEntriesThrows == accessToken = NoToken
UpdateJournalEntryThrows(field) == accessToken = NoToken \/ field \notin DOMAIN COLUMN_MAP
ThrowsLocally(fc) ==
    IF fc.name = "findEntries" THEN GetJournalEntriesThrows
    ELSE UpdateJournalEntryThrows(fc.args.field)

\* the result the catch block of the dispatcher gives a call that threw
CatchResultMutant == "undefined"
CatchResult == "error"

\* sessionPromise.then(session => session.sendToolResponse(...)) for one call
RespondMutant(r, k, fc, payload) ==
    IF payload = "undefined" THEN r
    ELSE Append(r, [to |-> k, id |-> fc.id, name |-> fc.name, response |-> payload])
Respond(r, k, fc, payload) ==
    Append(r, [to |-> k, id |-> fc.id, name |-> fc.name, response |-> payload])

\* the for loop over functionCalls from call i on, up to the next await of
\* a storage request: idx is the call now awaited, 0 when the loop is over;
\* a call that throws before its request is answered at once
RECURSIVE RunCalls(_, _, _, _, _, _, _)
RunCalls(k, calls, i, t, r, fe, fa) ==
    IF i > Len(calls)
    THEN [idx |-> 0, transcript |-> t, responses |-> r, fetched |-> fe, failed |-> fa]
    ELSE IF calls[i].name \in KnownTools
         THEN IF ThrowsLocally(calls[i])
              THEN RunCalls(k, calls, i + 1, SystemEntry(t, calls[i]),
                            Respond(r, k, calls[i], CatchResult), fe, fa \cup {calls[i].id})
              ELSE [idx |-> i, transcript |-> SystemEntry(t, calls[i]), responses |-> r,
                    fetched |-> fe \cup {calls[i]}, failed |-> fa]
         ELSE RunCalls(k, calls, i + 1, t, Respond(r, k, calls[i], "undefined"), fe, fa)

\* the interrupted flag: flush the playback
Interrupted(h, cursor, srcs, ss, ch) ==
    IF h.interrupted
    THEN /\ srcState' = [s \in Chunks |-> IF s \in srcs THEN "stopped" ELSE ss[s]]
         /\ audioSources' = {}
         /\ nextAudioStartTime' = 0
         /\ chain' = NoChain
    ELSE /\ srcState' = ss
         /\ audioSources' = srcs
         /\ nextAudioStartTime' = cursor
         /\ chain' = ch

\* the handler after its function calls: await the decoding of the audio
\* chunk, or go on to the interrupted flag and end
AfterCalls(h, rest) ==
    IF h.audio > 0 /\ audioContextRef # 0
    THEN /\ handlers' = rest \cup {[h EXCEPT !.stage = "decode", !.idx = 0, !.ctx = audioContextRef]}
         /\ UNCHANGED <<nextAudioStartTime, audioSources, srcState, chain>>
    ELSE /\ handlers' = rest
         /\ Interrupted(h, nextAudioStartTime, audioSources, srcState, chain)

\* the ids given to the function calls of a received message
WithIds(calls) == [j \in 1..Len(calls) |-> [calls[j] EXCEPT !.id = callCount + j]]

\* a message arrives on transport k: the handler up to its first await
OnMessage(k, m) ==
    /\ transport[k] = "open"
    /\ LET rc == RunCalls(k, WithIds(m.calls), 1, AfterTranscription(transcript, m), responses,
                          fetched, failed)
           h == [id |-> msgCount + 1, tr |-> k, calls |-> WithIds(m.calls), idx |-> rc.idx,
                 audio |-> m.audio, interrupted |-> m.interrupted, ctx |-> 0, stage |-> "tool"]
       IN /\ transcript' = rc.transcript
          /\ responses' = rc.responses
          /\ fetched' = rc.fetched
          /\ failed' = rc.failed
          /\ IF rc.idx > 0
             THEN /\ handlers' = handlers \cup {h}
                  /\ UNCHANGED <<nextAudioStartTime, audioSources, srcState, chain>>
             ELSE AfterCalls(h, handlers)
          /\ lastAct' = IF rc.idx = 0 /\ ~(m.audio > 0 /\ audioContextRef # 0) /\ m.interrupted
                        THEN "handledInterrupted" ELSE "other"
    /\ msgCount' = IF m.audio > 0 \/ Len(m.calls) > 0 \/ m.inT # "" \/ m.outT # ""
                    THEN msgCount + 1 ELSE msgCount
    /\ callCount' = callCount + Len(m.calls)
    /\ received' = received \o [j \in 1..Len(m.calls) |-> m.calls[j].name]
    /\ UNCHANGED <<sessionState, errorMessage, micVolume, refVars, envVars, clock, srcCount,
                   lastCmd, rel, sched, lastErr, fnVars>>

\* the storage call awaited by handler h settles: its response is sent and
\* the loop goes on
StorageSettle(h, ok) ==
    /\ h \in handlers
    /\ h.stage = "tool"
    /\ LET r1 == Respond(responses, h.tr, h.calls[h.idx], IF ok THEN "result" ELSE CatchResult)
           rc == RunCalls(h.tr, h.calls, h.idx + 1, transcript, r1, fetched,
                          IF ok THEN failed ELSE failed \cup {h.calls[h.idx].id})
       IN /\ transcript' = rc.transcript
          /\ responses' = rc.responses
          /\ fetched' = rc.fetched
          /\ failed' = rc.failed
          /\ IF rc.idx > 0
             THEN /\ handlers' = (handlers \ {h}) \cup {[h EXCEPT !.idx = rc.idx]}
                  /\ UNCHANGED <<nextAudioStartTime, audioSources, srcState, chain>>
             ELSE AfterCalls(h, handlers \ {h})
          /\ lastAct' = IF rc.idx = 0 /\ ~(h.audio > 0 /\ audioContextRef # 0) /\ h.interrupted
                        THEN "handledInterrupted" ELSE "other"
    /\ UNCHANGED <<sessionState, errorMessage, micVolume, refVars, envVars, clock, srcCount,
                   msgCount, callCount, lastCmd, rel, sched, received, lastErr, fnVars>>

\* the start time of a chunk and the cursor after it
StartAtMutant(cursor, now) == now
StartAt(cursor, now) == Max(cursor, now)
NextCursor(start, dur) == start + dur

\* decodeAudioData of handler h settles: the chunk is scheduled on the
\* context the handler captured, then the interrupted flag is handled;
\* a failed decode or start rejects the handler
DecodeSettle(h, ok) ==
    /\ h \in handlers
    /\ h.stage = "decode"
    /\ handlers' = handlers \ {h}
    /\ lastAct' = IF h.interrupted THEN "handledInterrupted"
                  ELSE IF ok THEN "scheduled" ELSE "other"
    /\ IF ok
       THEN LET start == StartAt(nextAudioStartTime, clock[h.ctx])
                s == srcCount + 1
                end == NextCursor(start, h.audio)
            IN /\ srcCount' = s
               /\ sched' = [start |-> start, clock |-> clock[h.ctx], dur |-> h.audio,
                            cursor |-> end, ctx |-> h.ctx, flushed |-> h.interrupted,
                            prevEnd |-> IF chain.ctx = h.ctx THEN chain.end ELSE -1,
                            msg |-> h.id, first |-> h.ctx \notin sched.played,
                            played |-> sched.played \cup {h.ctx}]
               /\ Interrupted(h, end, audioSources \cup {s}, [srcState EXCEPT ![s] = "playing"],
                              [ctx |-> h.ctx, end |-> start + h.audio])
       ELSE UNCHANGED <<nextAudioStartTime, audioSources, srcState, srcCount, sched, chain>>
    /\ UNCHANGED <<uiVars, refVars, envVars, clock, msgCount, callCount, responses, lastCmd, rel,
                   received, lastErr, fnVars, fetched, failed>>

\* the ended event of a playing source
SourceEnded(s) ==
    /\ srcState[s] = "playing"
    /\ srcState' = [srcState EXCEPT ![s] = "ended"]
    /\ audioSources' = audioSources \ {s}
    /\ lastAct' = "other"
    /\ UNCHANGED <<uiVars, refVars, envVars, nextAudioStartTime, clock, srcCount, toolVars,
                   lastCmd, rel, sched, chain, received, lastErr, fnVars>>

\* the device clock of a running context advances
Tick(c) ==
    /\ ctxState[c] = "running"
    /\ clock[c] < MaxClock
    /\ clock' = [clock EXCEPT ![c] = @ + 1]
    /\ lastAct' = "other"
    /\ UNCHANGED <<uiVars, refVars, envVars, nextAudioStartTime, audioSources, srcState,
                   srcCount, toolVars, lastCmd, rel, sched, chain, received, lastErr, fnVars>>

\* the messages of the playback runs: an audio chunk, the interrupted flag
PlaybackMsgs ==
    { [inT |-> "", outT |-> "", calls |-> <<>>, audio |-> d, interrupted |-> i] :
        d \in 0..MaxDur, i \in BOOLEAN } \
    { [inT |-> "", outT |-> "", calls |-> <<>>, audio |-> 0, interrupted |-> FALSE] }

\* the function calls of the tool-call runs
FunctionCalls ==
    { [id |-> 0, name |-> "findEntries", args |-> [query |-> "coffee"]],
      [id |-> 0, name |-> "updateJournalEntry", args |-> [row |-> "5", field |-> "tags", value |-> "x"]],
      [id |-> 0, name |-> "updateJournalEntry", args |-> [row |-> "5", field |-> "bogus", value |-> "x"]],
      [id |-> 0, name |-> "updateJournalEntry", args |-> [row |-> "5", field |-> "id", value |-> "x"]],
      [id |-> 0, name |-> "deleteEntry", args |-> [row |-> "5"]] }
CallLists == UNION { [1..n -> FunctionCalls] : n \in 1..MaxCallsPerMsg }
ToolMsgs ==
    { [inT |-> "", outT |-> "", calls |-> cs, audio |-> 0, interrupted |-> FALSE] : cs \in CallLists }

\* the messages of the transcript runs: transcription deltas of the user
\* and of the model ("" stands for a message without that transcription),
\* and a function call
TranscriptMsgs ==
    { [inT |-> i, outT |-> o, calls |-> cs, audio |-> 0, interrupted |-> FALSE] :
        i \in {"", "Hel", "lo"}, o \in {"", "Hi"},
        cs \in {<<>>, <<[id |-> 0, name |-> "findEntries", args |-> [query |-> "coffee"]]>>} } \
    { [inT |-> "", outT |-> "", calls |-> <<>>, audio |-> 0, interrupted |-> FALSE] }

\* the messages of the ordering runs: an audio chunk, alone or after a
\* function call
OrderMsgs ==
    { [inT |-> "", outT |-> "", calls |-> cs, audio |-> 1, interrupted |-> FALSE] :
        cs \in {<<>>, <<[id |-> 0, name |-> "findEntries", args |-> [query |-> "coffee"]]>>} }

\* the messages of the runs of two sessions: a delta of the user or of the
\* model, a function call
AppendMsgs ==
    { m \in TranscriptMsgs :
        /\ (IF m.inT # "" THEN 1 ELSE 0) + (IF m.outT # "" THEN 1 ELSE 0)
             + (IF m.calls # <<>> THEN 1 ELSE 0) = 1 }

\* the message of the cursor runs: an audio chunk
CursorMsgs == { [inT |-> "", outT |-> "", calls |-> <<>>, audio |-> 1, interrupted |-> FALSE] }

\* -------------------------------------------------------- downsampleTo16k
TargetRate == 16000

\* Math.ceil(a / b) and Math.floor(a / b) of non-negative integers
CeilDiv(a, b) == (a + b - 1) \div b
FloorDiv(a, b) == a \div b

\* nearest-neighbour decimation of a frame captured at the device rate;
\* ratio = sampleRate / 16000, so length / ratio = length * 16000 / sampleRate
\* and i * ratio = i * sampleRate / 16000 (indices from 0 in the source, from
\* 1 here); a Float32Array element that is not written holds 0
downsampleTo16kMutant(input, rate) ==
    IF rate = TargetRate THEN input
    ELSE LET newLength == FloorDiv(Len(input) * TargetRate, rate)
         IN [i \in 1..newLength |->
               LET offset == FloorDiv((i - 1) * rate, TargetRate)
               IN IF offset < Len(input) THEN input[offset + 1] ELSE 0]
downsampleTo16k(input, rate) ==
    IF rate = TargetRate THEN input
    ELSE LET newLength == CeilDiv(Len(input) * TargetRate, rate)
         IN [i \in 1..newLength |->
               LET offset == FloorDiv((i - 1) * rate, TargetRate)
               IN IF offset < Len(input) THEN input[offset + 1] ELSE 0]

\* one frame goes through downsampleTo16k
Downsample ==
    /\ lastAct = "other"
    /\ resampled' = downsampleTo16k(inputData, sampleRate)
    /\ lastAct' = "downsampled"
    /\ UNCHANGED <<uiVars, refVars, envVars, playVars, toolVars, lastCmd, lastErr, rel, sched,
                   chain, received, inputData, sampleRate, sheet, findArgs, found, retryVars>>

\* the frames and device rates of the downsampling runs: sample j of a frame
\* has the value j
Ramp(n) == [j \in 1..n |-> j]
DeviceRates == {8000, 16000, 24000, 32000, 44100, 48000}
FrameInputs ==
    { <<Ramp(n), r>> : n \in 0..MaxFrame, r \in DeviceRates } \cup { <<Ramp(960), 48000>> }

\* ------------------------------------------------------------ findEntries
\* slice(0, 5) of findEntries
RecentCount == 5

\* text is a sequence of characters
ToLowerCase(t) == [i \in DOMAIN t |-> IF t[i] = "C" THEN "c" ELSE IF t[i] = "T" THEN "t" ELSE t[i]]
Includes(t, q) == \E i \in 0..(Len(t) - Len(q)) : SubSeq(t, i + 1, i + Len(q)) = q

\* String(undefined)
Undefined == <<"u", "n", "d", "e", "f", "i", "n", "e", "d">>

\* the entry of the row at index i of the rows below the header (i from 1
\* here, from 0 in the source)
mapRowToEntry(row, i) ==
    [row |-> i + 1, timestamp |-> row.timestamp, entry |-> row.entry, dueDate |-> row.dueDate]

\* Array.prototype.sort with the comparator b.timestamp - a.timestamp (stable)
SortRecentFirst(es) ==
    LET Rank(i) == Cardinality({ j \in DOMAIN es :
                        \/ es[j].timestamp > es[i].timestamp
                        \/ es[j].timestamp = es[i].timestamp /\ j < i }) + 1
    IN [r \in DOMAIN es |-> es[CHOOSE i \in DOMAIN es : Rank(i) = r]]

\* the entries getJournalEntries resolves with
getJournalEntries(rows) == SortRecentFirst([i \in DOMAIN rows |-> mapRowToEntry(rows[i], i)])

\* the entries findEntries resolves with
findEntries(allEntries, query) ==
    IF query = <<>>
    THEN SubSeq(allEntries, 1, IF Len(allEntries) < RecentCount THEN Len(allEntries) ELSE RecentCount)
    ELSE SelectSeq(allEntries, LAMBDA e : Includes(ToLowerCase(e.entry), ToLowerCase(query)))

\* the query the dispatcher passes for the arguments of a findEntries call
QueryArg(args) == IF args.hasQuery THEN args.query ELSE Undefined

\* the dispatcher runs one findEntries call of a signed-in user to its result
FindEntriesCall ==
    /\ lastAct = "other"
    /\ ~GetJournalEntriesThrows
    /\ found' = findEntries(getJournalEntries(sheet), QueryArg(findArgs))
    /\ lastAct' = "found"
    /\ UNCHANGED <<uiVars, refVars, envVars, playVars, toolVars, lastCmd, lastErr, rel, sched,
                   chain, received, inputData, sampleRate, resampled, sheet, findArgs, retryVars>>

\* the sheets and arguments of the search runs: rows of four kinds in a
\* rotating pattern, created in ascending or descending order of time or all
\* at the same time; dates are day numbers, 0 for none
RowKinds ==
    << [entry |-> <<"c">>, dueDate |-> 0], [entry |-> <<"C", "t">>, dueDate |-> 1],
       [entry |-> <<"t">>, dueDate |-> 2], [entry |-> <<"t", "c">>, dueDate |-> 3] >>
Sheets ==
    { [i \in 1..n |->
         [timestamp |-> IF o = "asc" THEN i ELSE IF o = "desc" THEN n + 1 - i ELSE 1,
          entry |-> RowKinds[((i + sh) % 4) + 1].entry,
          dueDate |-> RowKinds[((i + sh) % 4) + 1].dueDate]] :
      n \in 0..MaxRows, sh \in 0..3, o \in {"asc", "desc", "tie"} }
FindArgs ==
    { [hasQuery |-> h, query |-> q, startDate |-> a, endDate |-> b] :
        h \in BOOLEAN, q \in {<<>>, <<"c">>}, a \in {0, 1, 2}, b \in {0, 2, 3} } \
    { [hasQuery |-> FALSE, query |-> <<"c">>, startDate |-> a, endDate |-> b] :
        a \in {0, 1, 2}, b \in {0, 2, 3} }

\* --------------------------------------------------------- fetchWithRetry
\* the default parameters
DefaultRetries == 3
DefaultBackoff == 1000

\* what one fetch settles with: a response with its status, or a rejection
\* (network error)
NoOutcome == [kind |-> "none", status |-> 0]
FetchOutcomes ==
    { [kind |-> "response", status |-> st] : st \in {200, 204, 400, 401, 403, 404, 429, 500, 503} }
    \cup { [kind |-> "error", status |-> 0] }

\* response.ok
Ok(o) == o.status >= 200 /\ o.status <= 299

\* client error (4xx) other than 429: not retried
ClientErrorMutant(o) == o.status >= 400 /\ o.status < 500
ClientError(o) == o.status >= 400 /\ o.status < 500 /\ o.status # 429

\* the awaited fetch settles: return the response, throw the error, or
\* start the backoff timer
FetchSettle ==
    /\ fetchPc = "fetch"
    /\ \E o \in FetchOutcomes :
         /\ fetchLog' = Append(fetchLog, o)
         /\ IF o.kind = "response"
            THEN IF Ok(o) \/ ClientError(o) \/ ~(retries > 0)
                 THEN fetchPc' = "returned" /\ fetchResult' = o
                 ELSE fetchPc' = "wait" /\ fetchResult' = fetchResult
            ELSE IF retries > 0
                 THEN fetchPc' = "wait" /\ fetchResult' = fetchResult
                 ELSE fetchPc' = "threw" /\ fetchResult' = o
    /\ UNCHANGED <<uiVars, refVars, envVars, playVars, toolVars, histVars, inputData, sampleRate,
                   resampled, sheet, findArgs, found, retries, backoff>>

\* the timer fires: fetchWithRetry(url, options, retries - 1, backoff * 2),
\* whose result is the result of the call
BackoffElapsed ==
    /\ fetchPc = "wait"
    /\ retries' = retries - 1
    /\ backoff' = backoff * 2
    /\ fetchPc' = "fetch"
    /\ UNCHANGED <<uiVars, refVars, envVars, playVars, toolVars, histVars, inputData, sampleRate,
                   resampled, sheet, findArgs, found, fetchLog, fetchResult>>

\* ------------------------------------------------------------------ Init
SessionInit ==
    /\ sessionState = "IDLE"
    /\ errorMessage = NoError
    /\ micVolume = 0
    /\ transcript = <<>>
    /\ sessionRef = 0
    /\ mediaStreamRef = 0
    /\ audioContextRef = 0
    /\ scriptProcessorRef = 0
    /\ nextAudioStartTime = 0
    /\ audioSources = {}
    /\ isBusy = FALSE
    /\ apiKeySet \in BOOLEAN
    /\ accessToken \in {NoToken, "token"}
    /\ nextCall = 1
    /\ pc = [k \in Calls |-> "new"]
    /\ ctxState = [k \in Calls |-> "none"]
    /\ streamState = [k \in Calls |-> "none"]
    /\ transport = [k \in Calls |-> "none"]
    /\ procState = [k \in Calls |-> "none"]
    /\ procWire = [k \in Calls |-> [ctx |-> 0, stream |-> 0]]
    /\ frames = [k \in Calls |-> [n |-> 0, waiting |-> <<>>, sent |-> <<>>]]
    /\ clock = [k \in Calls |-> 0]
    /\ srcState = [s \in Chunks |-> "none"]
    /\ srcCount = 0
    /\ handlers = {}
    /\ msgCount = 0
    /\ callCount = 0
    /\ responses = <<>>
    /\ fetched = {}
    /\ failed = {}
    /\ lastCmd = "none"
    /\ lastAct = "other"
    /\ lastErr = "none"
    /\ rel = [close |-> [k \in Calls |-> 0], tracks |-> [k \in Calls |-> 0],
              disc |-> [k \in Calls |-> 0], ctx |-> [k \in Calls |-> 0]]
    /\ sched = NoSched
    /\ chain = NoChain
    /\ received = <<>>

\* no frame captured
NoFrame ==
    /\ inputData = <<>>
    /\ sampleRate = TargetRate
    /\ resampled = <<>>

\* no findEntries call made
NoSearch ==
    /\ sheet = <<>>
    /\ findArgs = [hasQuery |-> FALSE, query |-> <<>>, startDate |-> 0, endDate |-> 0]
    /\ found = <<>>

\* no fetchWithRetry call made
NoFetch ==
    /\ retries = DefaultRetries
    /\ backoff = DefaultBackoff
    /\ fetchLog = <<>>
    /\ fetchPc = "idle"
    /\ fetchResult = NoOutcome

Init == SessionInit /\ NoFrame /\ NoSearch /\ NoFetch

Lifecycle(limit) ==
    \/ StartSession(limit)
    \/ StopSession
    \/ \E k \in Calls : ResumeSettle(k)
    \/ \E k \in Calls : MicSettle(k)
    \/ \E k \in Calls : TransportOpen(k)
    \/ \E k \in Calls : ConnectReject(k)
    \/ \E k \in Calls : OnClose(k)
    \/ \E k \in Calls : OnError(k)

Next ==
    \/ Lifecycle(MaxCalls)
    \/ \E p \in Calls : AudioProcess(p, MaxLifecycleFrames)

Spec == Init /\ [][Next]_vars

\* playback runs: the lifecycle, audio and interruption messages, the clock
PlaybackNext ==
    \/ Lifecycle(MaxPlaybackCalls)
    \/ \E k \in Calls : \E m \in PlaybackMsgs :
         /\ m.audio > 0 => msgCount < MaxChunks
         /\ OnMessage(k, m)
    \/ \E h \in handlers : \E ok \in BOOLEAN : DecodeSettle(h, ok)
    \/ \E s \in Chunks : SourceEnded(s)
    \/ \E c \in Calls : Tick(c)

PlaybackSpec == Init /\ [][PlaybackNext]_vars

\* tool-call runs: the lifecycle and toolCall messages
ToolNext ==
    \/ Lifecycle(MaxToolSessions)
    \/ \E k \in Calls : \E m \in ToolMsgs : msgCount < MaxToolMsgs /\ OnMessage(k, m)
    \/ \E h \in handlers : \E ok \in BOOLEAN : StorageSettle(h, ok)

ToolSpec == Init /\ [][ToolNext]_vars

\* transcript runs: the lifecycle, transcription and toolCall messages
TranscriptNext ==
    \/ Lifecycle(MaxToolSessions)
    \/ \E k \in Calls : \E m \in TranscriptMsgs : msgCount < MaxDeltas /\ OnMessage(k, m)
    \/ \E h \in handlers : \E ok \in BOOLEAN : StorageSettle(h, ok)

TranscriptSpec == Init /\ [][TranscriptNext]_vars

\* ordering runs: the lifecycle, audio chunks with and without a function
\* call, the clock; a decoding settles before the next message or storage
\* result is delivered, the order most favourable to the scheduler
Decoding == \E h \in handlers : h.stage = "decode"
OrderNext ==
    \/ Lifecycle(MaxPlaybackCalls)
    \/ \E k \in Calls : \E m \in OrderMsgs :
         /\ msgCount < MaxOrderMsgs
         /\ ~Decoding
         /\ OnMessage(k, m)
    \/ \E h \in handlers : \E ok \in BOOLEAN : ~Decoding /\ StorageSettle(h, ok)
    \/ \E h \in handlers : \E ok \in BOOLEAN : DecodeSettle(h, ok)
    \/ \E c \in Calls : Tick(c)

OrderSpec == Init /\ [][OrderNext]_vars

\* transcript runs of two sessions; the storage requests succeed (their
\* outcome changes the response sent, not the transcript)
AppendNext ==
    \/ Lifecycle(MaxCalls)
    \/ \E k \in Calls : \E m \in AppendMsgs : msgCount < MaxAppendMsgs /\ OnMessage(k, m)
    \/ \E h \in handlers : StorageSettle(h, TRUE)

AppendSpec == Init /\ [][AppendNext]_vars

\* cursor runs: two sessions, one audio chunk per message, the clock
CursorNext ==
    \/ Lifecycle(MaxCalls)
    \/ \E k \in Calls : \E m \in CursorMsgs : msgCount < MaxOrderMsgs /\ OnMessage(k, m)
    \/ \E h \in handlers : \E ok \in BOOLEAN : DecodeSettle(h, ok)
    \/ \E c \in Calls : Tick(c)

CursorSpec == Init /\ [][CursorNext]_vars

\* capture runs: the lifecycle with the opening of the transport in two
\* steps, and the frames
CaptureNext ==
    \/ StartSession(MaxPlaybackCalls)
    \/ StopSession
    \/ \E k \in Calls : ResumeSettle(k)
    \/ \E k \in Calls : MicSettle(k)
    \/ \E k \in Calls : OnOpen(k)
    \/ \E k \in Calls : ConnectResolve(k)
    \/ \E k \in Calls : ConnectReject(k)
    \/ \E k \in Calls : OnClose(k)
    \/ \E k \in Calls : OnError(k)
    \/ \E p \in Calls : AudioProcess(p, MaxFrames)

CaptureSpec == Init /\ [][CaptureNext]_vars

\* downsampling runs: one captured frame
DownsampleInit ==
    /\ SessionInit
    /\ NoSearch
    /\ NoFetch
    /\ \E fr \in FrameInputs : inputData = fr[1] /\ sampleRate = fr[2]
    /\ resampled = <<>>

DownsampleSpec == DownsampleInit /\ [][Downsample]_vars

\* search runs: one findEntries call on one sheet
FindInit ==
    /\ SessionInit
    /\ NoFrame
    /\ NoFetch
    /\ sheet \in Sheets
    /\ findArgs \in FindArgs
    /\ found = <<>>

FindSpec == FindInit /\ [][FindEntriesCall]_vars

\* retry runs: one fetchWithRetry call with the default parameters
RetryInit ==
    /\ SessionInit
    /\ NoFrame
    /\ NoSearch
    /\ retries = DefaultRetries
    /\ backoff = DefaultBackoff
    /\ fetchLog = <<>>
    /\ fetchPc = "fetch"
    /\ fetchResult = NoOutcome

RetryNext == FetchSettle \/ BackoffElapsed

RetrySpec == RetryInit /\ [][RetryNext]_vars

\* ---------------------------------------------------------------- claims
NoStartInProgress == \A k \in Calls : pc[k] \in {"new", "done"}
AtRest == sessionState \in {"IDLE", "ERROR"} /\ NoStartInProgress
LiveStreams == {k \in Calls : streamState[k] = "live"}
LiveTransports == {k \in Calls : transport[k] \in {"connecting", "open"}}
AllReleased ==
    /\ LiveStreams = {}
    /\ LiveTransports = {}
    /\ \A k \in Calls : procState[k] # "connected" /\ ctxState[k] \in {"none", "closed"}
    /\ audioSources = {}

\* C1: a startSession() call made while sessionState is CONNECTING or
\* LISTENING changes nothing: no microphone request, no transport, and
\* sessionState, transcript and errorMessage stay as they are.
C1_StartWhileBusyIsNoOp ==
    [][(StartSession(MaxCalls) /\ sessionState \in {"CONNECTING", "LISTENING"})
        => UNCHANGED <<uiVars, refVars, envVars>>]_vars

\* C2: at every moment at most one microphone stream is acquired and not
\* stopped, and at most one transport is connecting or open.
C2_SingleStreamAndTransport ==
    Cardinality(LiveStreams) <= 1 /\ Cardinality(LiveTransports) <= 1

\* C3: after onerror, or after an exception inside startSession(), the
\* session rests in ERROR, and ERROR is left only by a startSession() call.
C3_ErrorIsResting ==
    [][/\ lastAct' \in {"onerror", "startFailed"} => sessionState' = "ERROR"
       /\ (sessionState = "ERROR" /\ ~StartSession(MaxCalls)) => sessionState' = "ERROR"]_vars

\* C4: when the session is at rest in IDLE or ERROR with no startSession()
\* call in progress, no resource is held any more.
C4_FullTeardownAtRest == AtRest => AllReleased

\* C5: a startSession() call made while the session is at rest in IDLE or
\* ERROR is never dropped by the re-entrancy guard.
C5_StartAcceptedAtRest == lastAct = "startDropped" => ~AtRest

\* C6: from a stopSession() call until the next startSession() call,
\* sessionState is IDLE.
C6_StopIsFinal == lastCmd = "stop" => sessionState = "IDLE"

\* C7: stopSession() always leaves IDLE, never releases a resource that was
\* already released, and a stopSession() that follows another one, or that
\* is made before any session was started, releases nothing.
C7_StopIdempotent ==
    [][StopSession =>
        /\ sessionState' = "IDLE"
        /\ \A k \in Calls : /\ rel'.close[k] <= 1 /\ rel'.tracks[k] <= 1
                            /\ rel'.disc[k] <= 1 /\ rel'.ctx[k] <= 1
        /\ (lastAct \in {"stop", "stopAgain"} \/ nextCall = 1) =>
              UNCHANGED <<rel, transport, streamState, procState, ctxState, srcState>>]_vars
C7_Witness ==
    /\ lastAct = "stopAgain"
    /\ \E k \in Calls : rel.close[k] = 1 /\ rel.tracks[k] = 1 /\ rel.disc[k] = 1 /\ rel.ctx[k] = 1

\* C8: a chunk scheduled after another one of the same session, with no
\* flush in between, starts no earlier than the end of that one and no later
\* than the larger of that end and the clock at scheduling; and the cursor
\* after a chunk is its start plus its duration.
C8_Gapless ==
    /\ sched.ctx # 0 =>
         /\ sched.cursor = sched.start + sched.dur
         /\ sched.prevEnd >= 0 =>
              /\ sched.start >= sched.prevEnd
              /\ sched.start <= Max(sched.clock, sched.prevEnd)
    /\ lastAct = "scheduled" => nextAudioStartTime = sched.start + sched.dur
C8_Witness ==
    /\ lastAct = "scheduled"
    /\ sched.prevEnd > sched.clock
    /\ sched.clock > 0
    /\ sched.start = sched.prevEnd

\* C9: when the handler of a message that carries the interrupted flag has
\* ended, no source is playing, audioSources is empty and the cursor is 0;
\* and a chunk that follows no other chunk (the first one after a flush)
\* starts no earlier than the clock at scheduling.
C9_InterruptionFlush ==
    /\ lastAct = "handledInterrupted" =>
         /\ audioSources = {}
         /\ nextAudioStartTime = 0
         /\ \A s \in Chunks : srcState[s] # "playing"
    /\ (sched.ctx # 0 /\ sched.prevEnd < 0) => sched.start >= sched.clock

\* C10: a function call whose storage request is still awaited, or that
\* waits behind such a call of its message, has no response; every other
\* received function call has exactly one, carrying its id and name.
PendingCalls ==
    UNION { {h.calls[j].id : j \in h.idx..Len(h.calls)} : h \in {x \in handlers : x.stage = "tool"} }
ResponsesTo(id) == {i \in DOMAIN responses : responses[i].id = id}
C10_AnsweredExactlyOnce ==
    \A id \in DOMAIN received :
       /\ Cardinality(ResponsesTo(id)) = IF id \in PendingCalls THEN 0 ELSE 1
       /\ \A i \in ResponsesTo(id) : responses[i].name = received[id]
C10_Witness ==
    /\ PendingCalls = {}
    /\ {responses[i].response : i \in DOMAIN responses} = {"result", "error", "undefined"}

\* C11: a function call that throws (no token, invalid field, failed storage
\* request) is answered with the error payload, and the step that answers it
\* leaves sessionState, errorMessage, the refs, the transports, the
\* microphone and the playback as they were: the transport it arrived on
\* stays open for later messages.
C11_ToolErrorContained ==
    [][failed' # failed =>
        /\ UNCHANGED <<sessionState, errorMessage, micVolume, refVars, envVars, playVars>>
        /\ \A id \in failed' \ failed :
             \E i \in (Len(responses) + 1)..Len(responses') :
                /\ responses'[i].id = id
                /\ responses'[i].response = "error"]_vars
C11_Witness ==
    /\ sessionState = "LISTENING"
    /\ \E a \in failed : a \in {fc.id : fc \in fetched}
    /\ \E a \in failed : a \notin {fc.id : fc \in fetched}
    /\ \E a \in failed : \E i \in DOMAIN responses :
          responses[i].id > a /\ responses[i].response = "result"

\* C12: no storage request is sent for an updateJournalEntry call whose field
\* is outside {entry, tags, type, taskStatus, dueDate, priority}.
UpdatableFields == {"entry", "tags", "type", "taskStatus", "dueDate", "priority"}
C12_UnknownFieldRejected ==
    \A fc \in fetched : fc.name = "updateJournalEntry" => fc.args.field \in UpdatableFields

\* C13: every step adds exactly one system line to the transcript per
\* function call it dispatches; when the storage request of a call is sent
\* the system line of the call is the last transcript entry and the call has
\* no response, and a result is sent only for a request sent in an earlier step.
WaitingBehind ==
    UNION { {h.calls[j].id : j \in (h.idx + 1)..Len(h.calls)} :
            h \in {x \in handlers : x.stage = "tool"} }
Dispatched == {id \in DOMAIN received : received[id] \in KnownTools /\ id \notin WaitingBehind}
SystemLines(t) == Cardinality({i \in DOMAIN t : t[i].source = "system"})
C13_SystemLineBeforeResult ==
    [][/\ nextCall' = nextCall =>
            SystemLines(transcript') = SystemLines(transcript) + Cardinality(Dispatched' \ Dispatched)
       /\ \A fc \in fetched' \ fetched :
            /\ {i \in DOMAIN responses' : responses'[i].id = fc.id} = {}
            /\ Len(transcript') > 0
            /\ transcript'[Len(transcript')] = [source |-> "system", text |-> SystemText(fc)]
       /\ \A i \in (Len(responses) + 1)..Len(responses') :
            responses'[i].response = "result" => responses'[i].id \in {fc.id : fc \in fetched}]_vars
C13_Witness ==
    /\ Cardinality(Dispatched) = 2
    /\ SystemLines(transcript) = 2
    /\ \E fc \in fetched : ResponsesTo(fc.id) = {}

\* C16 as stated: a delta of the speaker who spoke last (no delta of the
\* other speaker since) adds no transcript entry.
Deltas(sp) ==
    { m \in TranscriptMsgs : /\ m.calls = <<>>
                             /\ IF sp = "user" THEN m.inT # "" /\ m.outT = ""
                                ELSE m.inT = "" /\ m.outT # "" }
DeltaText(m) == IF m.inT # "" THEN m.inT ELSE m.outT
Spoken(t) == SelectSeq(t, LAMBDA e : e.source # "system")
SpokeLast(t, sp) == Len(Spoken(t)) > 0 /\ Spoken(t)[Len(Spoken(t))].source = sp
C16_SameSpeakerNoNewEntry ==
    [][\A sp \in {"user", "ai"} : \A m \in Deltas(sp) : \A k \in Calls :
          (OnMessage(k, m) /\ SpokeLast(transcript, sp)) => Len(transcript') = Len(transcript)]_vars

\* C16 amended: a delta extends the trailing entry (text concatenated, no new
\* entry) exactly when that entry is of the same speaker; when the trailing
\* entry is of the other speaker or a system line, or the transcript is
\* empty, the delta appends a new entry; earlier entries are never changed.
C16_TrailingEntryAccumulates ==
    [][\A sp \in {"user", "ai"} : \A m \in Deltas(sp) : \A k \in Calls :
          OnMessage(k, m) =>
            LET n == Len(transcript)
            IN /\ \A i \in 1..(n - 1) : transcript'[i] = transcript[i]
               /\ IF n > 0 /\ transcript[n].source = sp
                  THEN /\ Len(transcript') = n
                       /\ transcript'[n] = [source |-> sp, text |-> transcript[n].text \o DeltaText(m)]
                  ELSE /\ Len(transcript') = n + 1
                       /\ \A i \in 1..n : transcript'[i] = transcript[i]
                       /\ transcript'[n + 1] = [source |-> sp, text |-> DeltaText(m)]]_vars
C16_Witness ==
    transcript = << [source |-> "user", text |-> "Hello"], [source |-> "ai", text |-> "Hi"] >>

\* C17: when getUserMedia() of a startSession() call rejects with
\* NotAllowedError or PermissionDeniedError, the call ends with the
\* microphone message, without a stream and without a transport, now and
\* later, and with its audio context closed and the refs cleared; every
\* other failure sets another message.
DeniedNames == {"NotAllowedError", "PermissionDeniedError"}
C17_MicDenied ==
    [][\A k \in Calls :
         /\ (pc[k] = "mic" /\ pc'[k] = "done" /\ lastErr' \in DeniedNames) =>
               /\ errorMessage' = MicDeniedMsg
               /\ streamState'[k] = "none"
               /\ transport'[k] = "none"
               /\ ctxState'[k] = "closed"
               /\ audioContextRef' = 0 /\ mediaStreamRef' = 0 /\ sessionRef' = 0
         /\ (pc[k] = "done" /\ transport[k] = "none") => transport'[k] = "none"
         /\ (lastAct' = "onerror" \/ (lastAct' = "startFailed" /\ lastErr' \notin DeniedNames)) =>
               errorMessage' # MicDeniedMsg]_vars
C17_Witness ==
    /\ lastAct = "startFailed"
    /\ lastErr \in DeniedNames
    /\ errorMessage = MicDeniedMsg
    /\ \E k \in Calls : pc[k] = "done" /\ ctxState[k] = "closed" /\ transport[k] = "none"

\* C18: without the API key no startSession() call creates an audio context,
\* requests the microphone or opens a transport, and every call made has
\* ended with the message of the missing key.
C18_MissingKeyAcquiresNothing ==
    ~apiKeySet =>
        /\ \A k \in Calls : /\ ctxState[k] = "none" /\ streamState[k] = "none"
                            /\ transport[k] = "none" /\ procState[k] = "none"
                            /\ pc[k] \in {"new", "done"}
        /\ audioContextRef = 0 /\ mediaStreamRef = 0 /\ sessionRef = 0
        /\ nextCall > 1 => errorMessage = KeyMsg /\ lastErr = "Error"
C18_Witness ==
    /\ ~apiKeySet
    /\ lastAct = "startFailed"
    /\ errorMessage = KeyMsg
    /\ pc[1] = "done"

\* C19: without an access token no startSession() call acquires the
\* microphone or opens a transport.
C19_MissingTokenIsFatal ==
    accessToken = NoToken =>
        \A k \in Calls : streamState[k] = "none" /\ transport[k] = "none"

\* C14: a findEntries call with a start date and/or an end date returns
\* exactly the entries that have a due date in the inclusive range (an
\* absent bound is unbounded) and that match the query when one is given.
JournalEntries == { mapRowToEntry(sheet[i], i) : i \in DOMAIN sheet }
Returned == { found[i] : i \in DOMAIN found }
QueryGiven == findArgs.hasQuery /\ findArgs.query # <<>>
DateGiven == findArgs.startDate # 0 \/ findArgs.endDate # 0
InDateRange(e) ==
    /\ e.dueDate # 0
    /\ findArgs.startDate # 0 => e.dueDate >= findArgs.startDate
    /\ findArgs.endDate # 0 => e.dueDate <= findArgs.endDate
MatchesQuery(e) == QueryGiven => Includes(ToLowerCase(e.entry), ToLowerCase(findArgs.query))
C14_DateRangeFilter ==
    (lastAct = "found" /\ DateGiven) =>
        /\ Returned = { e \in JournalEntries : InDateRange(e) /\ MatchesQuery(e) }
        /\ Len(found) = Cardinality(Returned)

\* C15: a findEntries call with no query and no dates returns the 5 most
\* recent entries (all when there are fewer), most recent first.
C15_DefaultRecency ==
    (lastAct = "found" /\ ~QueryGiven /\ ~DateGiven) =>
        /\ Len(found) = (IF Len(sheet) < 5 THEN Len(sheet) ELSE 5)
        /\ Len(found) = Cardinality(Returned)
        /\ Returned \subseteq JournalEntries
        /\ \A i \in DOMAIN found : \A j \in DOMAIN found :
              i < j => found[i].timestamp >= found[j].timestamp
        /\ \A e \in JournalEntries \ Returned : \A i \in DOMAIN found :
              e.timestamp <= found[i].timestamp

\* C20: downsampleTo16k returns the frame itself at 16000 Hz; at another
\* rate it returns n = ceil(len * 16000 / rate) samples, sample i (from 0)
\* being input sample floor(i * rate / 16000), which lies inside the input;
\* 960 samples at 48000 Hz give 320 samples, sample i being input sample 3i.
C20_Downsample ==
    lastAct = "downsampled" =>
        LET len == Len(inputData)
            n == Len(resampled)
        IN /\ sampleRate = 16000 => resampled = inputData
           /\ sampleRate # 16000 =>
                /\ n * sampleRate >= len * 16000
                /\ n > 0 => (n - 1) * sampleRate < len * 16000
                /\ \A i \in 0..(n - 1) :
                     \E o \in 0..(len - 1) :
                        /\ o * 16000 <= i * sampleRate
                        /\ i * sampleRate < (o + 1) * 16000
                        /\ resampled[i + 1] = inputData[o + 1]
           /\ (sampleRate = 48000 /\ len = 960) =>
                /\ n = 320
                /\ \A i \in 0..319 : resampled[i + 1] = inputData[3 * i + 1]
C20_Witness ==
    /\ lastAct = "downsampled"
    /\ sampleRate = 48000
    /\ Len(inputData) = 960
    /\ Len(resampled) = 320
    /\ resampled[320] = 958

\* C21: whenever sessionState is LISTENING, a live microphone stream, a
\* context that is not closed and a connected script processor, wired to
\* that stream and that context, are held, and the transport whose onopen
\* created that processor is open.
C21_ListeningIsWired ==
    sessionState = "LISTENING" =>
        /\ mediaStreamRef # 0 /\ streamState[mediaStreamRef] = "live"
        /\ audioContextRef # 0 /\ ctxState[audioContextRef] \in {"suspended", "running"}
        /\ scriptProcessorRef # 0 /\ procState[scriptProcessorRef] = "connected"
        /\ procWire[scriptProcessorRef] = [ctx |-> audioContextRef, stream |-> mediaStreamRef]
        /\ transport[scriptProcessorRef] = "open"
C21_Witness ==
    /\ sessionState = "LISTENING"
    /\ nextCall = 3
    /\ scriptProcessorRef = 2
    /\ procState[1] = "disconnected"

\* C22: a chunk is scheduled after every chunk of its session that arrived in
\* an earlier message: when a chunk is scheduled on the context of the last
\* scheduled chunk, that one arrived earlier, and, with no flush in between,
\* it was given an earlier start time.
C22_ArrivalOrder ==
    [][\A h \in handlers :
         (DecodeSettle(h, TRUE) /\ sched.ctx = h.ctx) =>
            /\ sched.msg < h.id
            /\ chain.ctx = h.ctx => sched.start < sched'.start]_vars

\* C23: the sendRealtimeInput calls of a script processor carry its frames in
\* capture order, none skipped and none twice; the frames captured while the
\* connect promise is pending wait in capture order, behind every frame
\* sent, and when the promise has resolved none waits any more.
C23_CaptureOrder ==
    \A p \in Calls :
       LET f == frames[p]
       IN /\ \A i \in DOMAIN f.sent : f.sent[i].no = i
          /\ \A i \in DOMAIN f.waiting : f.waiting[i] = Len(f.sent) + i
          /\ f.n = Len(f.sent) + Len(f.waiting)
          /\ pc[p] # "opened" => f.waiting = <<>>
C23_Witness ==
    \E p \in Calls :
       /\ Len(frames[p].sent) = 3
       /\ frames[p].sent[1].queued /\ frames[p].sent[2].queued /\ ~frames[p].sent[3].queued
       /\ \A i \in 1..3 : frames[p].sent[i].open

\* C24: a step that is not an accepted startSession() call removes and
\* reorders no transcript entry, leaves every entry but the last as it is,
\* and changes the last one only by appending text to its text; so only an
\* accepted startSession() call empties the transcript.
Suffixes == {""} \cup {m.inT : m \in TranscriptMsgs} \cup {m.outT : m \in TranscriptMsgs}
C24_AppendOnly ==
    [][nextCall' = nextCall =>
         LET n == Len(transcript)
         IN /\ Len(transcript') >= n
            /\ \A i \in 1..(n - 1) : transcript'[i] = transcript[i]
            /\ n > 0 =>
                 /\ transcript'[n].source = transcript[n].source
                 /\ \E d \in Suffixes : transcript'[n].text = transcript[n].text \o d]_vars
C24_Witness ==
    /\ nextCall = 3
    /\ msgCount = 3
    /\ transcript = << [source |-> "user", text |-> "Hello"] >>

\* C25: the step in which the decoding of a chunk fails changes neither
\* sessionState, errorMessage nor any resource, adds no playback source, and
\* still handles the interrupted flag of the message: every source stopped,
\* audioSources empty, cursor 0.
C25_DecodeFailureContained ==
    [][\A h \in handlers :
         DecodeSettle(h, FALSE) =>
            /\ UNCHANGED <<sessionState, errorMessage, refVars, envVars>>
            /\ audioSources' \subseteq audioSources
            /\ srcCount' = srcCount
            /\ h.interrupted =>
                 /\ audioSources' = {}
                 /\ nextAudioStartTime' = 0
                 /\ \A s \in Chunks : srcState'[s] # "playing"]_vars

\* C26: a step of an earlier startSession() call k (its continuation
\* resuming, or onopen, onclose or onerror of its transport), taken after a
\* later call has begun, leaves alone the resources the later calls
\* created, the refs that hold them, and sessionState.
EarlierStep(k) ==
    \/ ResumeSettle(k) \/ MicSettle(k) \/ TransportOpen(k)
    \/ ConnectReject(k) \/ OnClose(k) \/ OnError(k)
Later(k) == {j \in Calls : k < j /\ j < nextCall}
C26_SessionIsolation ==
    [][\A k \in Calls :
         (EarlierStep(k) /\ Later(k) # {}) =>
            /\ \A j \in Later(k) :
                  /\ streamState'[j] = streamState[j]
                  /\ ctxState'[j] = ctxState[j]
                  /\ procState'[j] = procState[j]
                  /\ transport'[j] = transport[j]
            /\ mediaStreamRef \in Later(k) => mediaStreamRef' = mediaStreamRef
            /\ audioContextRef \in Later(k) => audioContextRef' = audioContextRef
            /\ scriptProcessorRef \in Later(k) => scriptProcessorRef' = scriptProcessorRef
            /\ sessionRef \in Later(k) => sessionRef' = sessionRef
            /\ sessionState' = sessionState]_vars

\* C27: sessionState is CONNECTING only while something that ends it is
\* still to come: a startSession() call suspended at an await, or a
\* transport that has not yet opened, closed or failed.  A state in which
\* sessionState is CONNECTING and nothing of this is outstanding stays
\* CONNECTING for as long as no new event arrives.
Outstanding ==
    \E k \in Calls : pc[k] \in {"resume", "mic", "connect"} \/ transport[k] = "connecting"
C27_ConnectingEnds == sessionState = "CONNECTING" => Outstanding

\* C28: the first chunk scheduled on the audio context of a session starts
\* at the clock of that context at the time of scheduling.
C28_FirstChunkAtClock == (sched.ctx # 0 /\ sched.first) => sched.start = sched.clock

\* C29: every sendToolResponse call and every sendRealtimeInput call is
\* made on a transport that is open: none after the transport was closed.
C29_NoSendAfterClose ==
    [][/\ \A i \in (Len(responses) + 1)..Len(responses') : transport[responses'[i].to] = "open"
       /\ \A p \in Calls : \A i \in DOMAIN frames'[p].sent : frames'[p].sent[i].open]_vars

\* C30: a fetchWithRetry call makes at most 4 fetch attempts; every attempt
\* but the last ended with a 5xx or 429 response or a network error; the
\* call waits for a further attempt only after such an outcome and before
\* the fourth attempt; it returns the response of its last attempt, which is
\* ok, a 4xx other than 429, or that of the fourth attempt, and it throws
\* only the network error of the fourth attempt.
RetryableOutcome(o) == o.kind = "error" \/ o.status = 429 \/ (o.status >= 500 /\ o.status <= 599)
C30_BoundedRetry ==
    LET n == Len(fetchLog)
    IN /\ n <= 4
       /\ \A i \in 1..(n - 1) : RetryableOutcome(fetchLog[i])
       /\ fetchPc = "fetch" => n < 4
       /\ fetchPc = "wait" => n < 4 /\ RetryableOutcome(fetchLog[n])
       /\ fetchPc = "returned" =>
            /\ fetchResult = fetchLog[n]
            /\ fetchResult.kind = "response"
            /\ n = 4 \/ ~RetryableOutcome(fetchResult)
       /\ fetchPc = "threw" =>
            /\ fetchResult = fetchLog[n]
            /\ fetchResult.kind = "error"
            /\ n = 4
C30_Witness ==
    /\ fetchPc = "threw"
    /\ Len(fetchLog) = 4
    /\ fetchLog[1].status = 503 /\ fetchLog[2].status = 429
    /\ backoff = 8000

====
